---- MODULE Spec2Model ----
(***************************************************************************)
(* predict.py: command-line inference over a saved Keras classifier.       *)
(*                                                                         *)
(* Spec models one process run: the module-level start-up (model path      *)
(* resolution, load_model_with_fallback, label path resolution, label file *)
(* reading) followed by the __main__ block (argument check, analyze_image, *)
(* print).  SpecShims models the two custom objects that the third load    *)
(* strategy hands to the framework, LegacyInputLayer and DTypePolicyShim,  *)
(* as the deserializer calls them.                                         *)
(*                                                                         *)
(* File names are sequences of characters, so that p.lower().endswith(ext) *)
(* is computed and not assumed.  An optional value (Python's None or a     *)
(* value) is a sequence of length 0 or 1.  Floats are stood for by small   *)
(* integers: only their order and equality matter to the code modelled.    *)
(* os.path.exists(p) is modelled for names of the working directory: p     *)
(* exists iff os.listdir('.') lists it.                                    *)
(***************************************************************************)
EXTENDS Integers, Sequences, FiniteSets, TLC

\* ------------------------------------------------------------------ bounds
\* Most entries in the working directory.
MaxDir == 2
\* Most lines in the label file.
MaxLabels == 2
\* Widest prediction vector.
MaxWidth == 2
\* Largest value in a prediction vector (values are 0..MaxVal).
MaxVal == 2

\* ------------------------------------------------------------- python values
None == <<>>
Some(x) == <<x>>

SeqsUpTo(S, n) == UNION {[1..k -> S] : k \in 0..n}

\* --------------------------------------------------------------- characters
UpperChars == <<"A","B","C","D","E","F","G","H","I","J","K","L","M",
                "N","O","P","Q","R","S","T","U","V","W","X","Y","Z">>
LowerChars == <<"a","b","c","d","e","f","g","h","i","j","k","l","m",
                "n","o","p","q","r","s","t","u","v","w","x","y","z">>

\* str.lower() on one character
LowerChar(c) ==
    IF \E i \in 1..Len(UpperChars) : UpperChars[i] = c
    THEN LowerChars[CHOOSE i \in 1..Len(UpperChars) : UpperChars[i] = c]
    ELSE c

\* str.lower()
Lower(s) == [i \in 1..Len(s) |-> LowerChar(s[i])]

\* str.endswith(suffix)
EndsWith(s, suffix) ==
    /\ Len(s) >= Len(suffix)
    /\ SubSeq(s, Len(s) - Len(suffix) + 1, Len(s)) = suffix

Whitespace == {" ", "\n", "\t"}

\* str.strip(): leading and trailing whitespace removed
RECURSIVE LStrip(_)
LStrip(s) == IF s # <<>> /\ s[1] \in Whitespace THEN LStrip(Tail(s)) ELSE s
RECURSIVE RStrip(_)
RStrip(s) ==
    IF s # <<>> /\ s[Len(s)] \in Whitespace
    THEN RStrip(SubSeq(s, 1, Len(s) - 1))
    ELSE s
Strip(s) == RStrip(LStrip(s))

\* ------------------------------------------------------------ configuration
DefaultModel == <<"t","r","a","i","n","e","d","_","m","o","d","e","l",".","h","5">>
DefaultClass == <<"c","l","a","s","s","_","n","a","m","e","s",".","t","x","t">>
AltModel == <<"B",".","H","5">>
AltClass == <<"n",".","T","x","t">>

H5 == <<".","h","5">>
TXT == <<".","t","x","t">>

\* os.environ.get(key, default)
EnvGet(env, key, default) == IF key \in DOMAIN env THEN env[key] ELSE default

\* The environments considered: each variable unset, or naming the other file.
Environs ==
    {e \in UNION {[K -> {AltModel, AltClass}] : K \in SUBSET {"MODEL_FILE", "CLASS_FILE"}} :
        /\ ("MODEL_FILE" \in DOMAIN e => e["MODEL_FILE"] = AltModel)
        /\ ("CLASS_FILE" \in DOMAIN e => e["CLASS_FILE"] = AltClass)}

\* ------------------------------------------------------------- file system
FileNames == {DefaultModel, AltModel, DefaultClass, AltClass}

\* os.listdir('.'): distinct names in an order the file system chooses
Listings ==
    {d \in SeqsUpTo(FileNames, MaxDir) :
        \A i, j \in 1..Len(d) : i # j => d[i] # d[j]}

\* os.path.exists(path)
Exists(path, dir) == \E i \in 1..Len(dir) : dir[i] = path

\* [p for p in os.listdir('.') if p.lower().endswith(ext)]
CandidatesNoLower(dir, ext) == SelectSeq(dir, LAMBDA p : EndsWith(p, ext))
Candidates(dir, ext) == SelectSeq(dir, LAMBDA p : EndsWith(Lower(p), ext))

\* print(f"{var} {path} not found; using first {ext} candidate: {candidates[0]}")
Notice(var, path, ext, candidate) ==
    [kind |-> "notice",
     text |-> <<var, " ", path, " not found; using first ", ext,
                " candidate: ", candidate>>]

\* if not os.path.exists(P): candidates = ...; if candidates: print(...); P = candidates[0]
ResolvePath(var, path, dir, ext) ==
    IF Exists(path, dir)
    THEN [path |-> path, out |-> <<>>]
    ELSE LET candidates == Candidates(dir, ext) IN
         IF candidates # <<>>
         THEN [path |-> candidates[1],
               out |-> <<Notice(var, path, ext, candidates[1])>>]
         ELSE [path |-> path, out |-> <<>>]

\* -------------------------------------------------------------- the loader
\* What one strategy's load_model call can do on a path.  A path that does not
\* exist cannot be loaded; an existing file loads or fails, by its format and
\* the installed framework.  Strategy 2 also fails when `import keras` does.
LoadErrors(k, path, dir) ==
    (IF Exists(path, dir)
     THEN CASE k = 1 -> {"Unrecognized keyword arguments: ['batch_shape']"}
            [] k = 2 -> {"Unrecognized keyword arguments: ['batch_shape']"}
            [] k = 3 -> {"Unknown layer"}
     ELSE {"No file or directory found"})
    \cup (IF k = 2 THEN {"No module named 'keras'"} ELSE {})

CanLoad(path, dir) == Exists(path, dir)

\* f"Failed to load model '{model_path}'. Tried ... Last error: {e_fallback}"
LoadErrorMessage(model_path, e_fallback) ==
    <<"Failed to load model '", model_path,
      "'. Tried tf.keras, keras and a fallback shim. Last error: ", e_fallback>>

\* ------------------------------------------------------------ label file
LabelLines == { <<"c","a","t","\n">>, <<" ","d","o","g"," ","\n">> }
LabelFiles == SeqsUpTo(LabelLines, MaxLabels)

\* [line.strip() for line in f.readlines()]
ReadClassNames(lines) == [i \in 1..Len(lines) |-> Strip(lines[i])]

\* -------------------------------------------------------------- inference
PredVectors == SeqsUpTo(0..MaxVal, MaxWidth)

ImageErrors == {"No such file or directory", "cannot identify image file"}
PredictErrors == {"Input 0 of layer is incompatible with the layer"}

\* np.max over the flattened output
RECURSIVE MaxFrom(_, _, _)
MaxFrom(p, i, best) ==
    IF i > Len(p) THEN best
    ELSE MaxFrom(p, i + 1, IF p[i] > best THEN p[i] ELSE best)
NpMax(p) == MaxFrom(p, 2, p[1])

\* np.argmax over the flattened output: the first occurrence of the maximum,
\* as a 0-based index
RECURSIVE ArgMaxFrom(_, _, _)
ArgMaxFrom(p, i, best) ==
    IF i > Len(p) THEN best
    ELSE ArgMaxFrom(p, i + 1, IF p[i] > p[best] THEN i ELSE best)
RECURSIVE ArgMaxLastFrom(_, _, _)
ArgMaxLastFrom(p, i, best) ==
    IF i > Len(p) THEN best
    ELSE ArgMaxLastFrom(p, i + 1, IF p[i] >= p[best] THEN i ELSE best)
NpArgMaxLast(p) == ArgMaxLastFrom(p, 2, 1) - 1
NpArgMax(p) == ArgMaxFrom(p, 2, 1) - 1

\* SelectLabel with the index wrapped into the label list instead of checked.
SelectLabelWrap(p, names) ==
    IF Len(p) = 0
    THEN [error |-> "attempt to get argmax of an empty sequence"]
    ELSE LET class_id == NpArgMax(p)
             confidence == NpMax(p)
         IN  IF Len(names) > 0
             THEN [label |-> names[(class_id % Len(names)) + 1],
                   confidence |-> confidence]
             ELSE [error |-> "list index out of range"]

\* Lines 103-112 of analyze_image on a prediction vector: the dictionary
\* returned, by the try body or by the except clause.
SelectLabel(p, names) ==
    IF Len(p) = 0
    THEN [error |-> "attempt to get argmax of an empty sequence"]
    ELSE LET class_id == NpArgMax(p)
             confidence == NpMax(p)
         IN  IF class_id < Len(names)
             THEN [label |-> names[class_id + 1], confidence |-> confidence]
             ELSE [error |-> "list index out of range"]

\* print(json.dumps(d))
JsonLine(d) == [kind |-> "json", value |-> d]

UsageError == [error |-> "No image path provided"]

Script == "predict.py"
\* sys.argv with no image path, and with one
Argvs == {<<Script>>, <<Script, "leaf.jpg">>}

\* ------------------------------------------- custom objects (lines 32-56)
EmptyDict == [k \in {} |-> "float32"]

ConfigKeys == {"name", "batch_shape", "dtype"}
ConfigValues == {"float32", "mixed_float16", "input_1"}
Configs == UNION {[K -> ConfigValues] : K \in SUBSET ConfigKeys}
PolicyNames == {"float32", "mixed_float16", "bfloat16"}

\* dict.pop(key, None), as the dictionary left behind
DictPop(d, key) == [k \in DOMAIN d \ {key} |-> d[k]]

\* Python truthiness of a configuration: None and {} are false
Truthy(h, ref) == ref # None /\ DOMAIN h[ref[1]] # {}

\* DTypePolicyShim.__init__(self, name='float32'), given keyword arguments
DTypePolicyInit(kwargs) ==
    IF DOMAIN kwargs \subseteq {"name"}
    THEN [name |-> IF "name" \in DOMAIN kwargs THEN kwargs["name"] ELSE "float32"]
    ELSE [raised |-> "TypeError"]

\* DTypePolicyShim.get_config(self)
DTypePolicyGetConfigDefault(p) == [name |-> "float32"]
DTypePolicyGetConfig(p) == [name |-> p.name]

\* DTypePolicyShim.from_config(cls, config): cls(**(config or {}))
DTypePolicyFromConfig(h, ref) ==
    DTypePolicyInit(IF Truthy(h, ref) THEN h[ref[1]] ELSE EmptyDict)

\* LegacyInputLayer.from_config(cls, config), lines 36-38: the heap it leaves
\* and the reference it hands to InputLayer.from_config.  dict(config) is a
\* new object holding config's items.
LegacyFromConfigInPlace(h, ref) ==
    [heap |-> [h EXCEPT ![ref] = DictPop(h[ref], "batch_shape")],
     passed |-> ref]
LegacyFromConfig(h, ref) ==
    LET copy == Len(h) + 1
        h1 == Append(h, h[ref])
    IN  [heap |-> [h1 EXCEPT ![copy] = DictPop(h1[copy], "batch_shape")],
         passed |-> copy]


\* ------------------------------------------------------------------- state
VARIABLES
    environ,        \* os.environ, restricted to MODEL_FILE and CLASS_FILE
    argv,           \* sys.argv
    listing,        \* os.listdir('.')
    MODEL_PATH,     \* module global
    CLASS_PATH,     \* module global
    model,          \* module global: None, or the predictor loaded
    class_names,    \* module global: None, or the label list
    attempts,       \* the load strategies tried so far, with their outcome
    stdout,         \* the lines printed
    uncaught,       \* None, or the exception that ended the process
    exit_code,      \* None while running, then the process's exit status
    preds,          \* None, or the vector model.predict returned
    raised,         \* None, or the exception raised inside analyze_image
    result,         \* None, or the dictionary analyze_image returned
    predict_calls,  \* number of calls of model.predict
    steps,          \* the start-up and main steps taken, in order
    pc,
    \* the custom objects of the third strategy, as the deserializer calls them
    heap,           \* the dictionary objects alive, by reference (1, 2, ...)
    config,         \* None, or the reference of the caller's configuration
    config0,        \* the caller's configuration as it was before the call
    policy,         \* a DTypePolicyShim instance
    delegated,      \* None, or the reference handed to InputLayer.from_config
    built,          \* None, or what the call returned (or the error it raised)
    call            \* the call made: "none" before it

vars == <<environ, argv, listing, MODEL_PATH, CLASS_PATH, model, class_names,
          attempts, stdout, uncaught, exit_code, preds, raised, result,
          predict_calls, steps, pc,
          heap, config, config0, policy, delegated, built, call>>

shim_vars == <<heap, config, config0, policy, delegated, built, call>>

proc_vars == <<environ, argv, listing, MODEL_PATH, CLASS_PATH, model, class_names,
               attempts, stdout, uncaught, exit_code, preds, raised, result,
               predict_calls, steps, pc>>

env_vars == <<environ, argv, listing>>

Init ==
    /\ environ \in Environs
    /\ argv \in Argvs
    /\ listing \in Listings
    /\ MODEL_PATH = EnvGet(environ, "MODEL_FILE", DefaultModel)
    /\ CLASS_PATH = EnvGet(environ, "CLASS_FILE", DefaultClass)
    /\ model = None
    /\ class_names = None
    /\ attempts = <<>>
    /\ stdout = <<>>
    /\ uncaught = None
    /\ exit_code = None
    /\ preds = None
    /\ raised = None
    /\ result = None
    /\ predict_calls = 0
    /\ steps = <<>>
    /\ pc = "resolve_model"
    /\ heap = <<>>
    /\ config = None
    /\ config0 = None
    /\ policy = [name |-> "float32"]
    /\ delegated = None
    /\ built = None
    /\ call = "none"

\* An unhandled exception: traceback on standard error, exit status 1.
Die(exception) ==
    /\ uncaught' = Some(exception)
    /\ exit_code' = Some(1)
    /\ pc' = "exited"

\* Lines 74-78.
ResolveModelPath ==
    /\ pc = "resolve_model"
    /\ LET r == ResolvePath("MODEL_PATH", MODEL_PATH, listing, H5) IN
        /\ MODEL_PATH' = r.path
        /\ stdout' = stdout \o r.out
    /\ steps' = Append(steps, "resolve_model")
    /\ pc' = "load_primary"
    /\ UNCHANGED <<shim_vars, env_vars, CLASS_PATH, model, class_names, attempts, uncaught,
                   exit_code, preds, raised, result, predict_calls>>

Loaded(k) ==
    /\ CanLoad(MODEL_PATH, listing)
    /\ attempts' = Append(attempts, [strategy |-> k, path |-> MODEL_PATH, error |-> None])
    /\ model' = Some([strategy |-> k, path |-> MODEL_PATH])
    /\ pc' = "resolve_class"
    /\ UNCHANGED <<uncaught, exit_code>>

\* Line 80 and lines 22-24: the call, and the primary strategy.
LoadPrimary ==
    /\ pc = "load_primary"
    /\ steps' = Append(steps, "load_model")
    /\ \/ Loaded(1)
       \/ \E e \in LoadErrors(1, MODEL_PATH, listing) :
            /\ attempts' = Append(attempts, [strategy |-> 1, path |-> MODEL_PATH, error |-> Some(e)])
            /\ pc' = "load_secondary"
            /\ UNCHANGED <<model, uncaught, exit_code>>
    /\ UNCHANGED <<shim_vars, env_vars, MODEL_PATH, CLASS_PATH, class_names, stdout, preds,
                   raised, result, predict_calls>>

\* Lines 26-29: standalone keras.
LoadSecondary ==
    /\ pc = "load_secondary"
    /\ \/ Loaded(2)
       \/ \E e \in LoadErrors(2, MODEL_PATH, listing) :
            /\ attempts' = Append(attempts, [strategy |-> 2, path |-> MODEL_PATH, error |-> Some(e)])
            /\ pc' = "load_shim"
            /\ UNCHANGED <<model, uncaught, exit_code>>
    /\ UNCHANGED <<shim_vars, env_vars, MODEL_PATH, CLASS_PATH, class_names, stdout, preds,
                   raised, result, predict_calls, steps>>

\* The error the RuntimeError of lines 67-69 reports.
FirstError(tried) == tried[1].error[1]
LastError(tried) == tried[Len(tried)].error[1]

\* LoadShim with the last failure swallowed: the start-up goes on with no model.
LoadShimSwallow ==
    /\ pc = "load_shim"
    /\ \/ Loaded(3)
       \/ \E e \in LoadErrors(3, MODEL_PATH, listing) :
            /\ attempts' = Append(attempts, [strategy |-> 3, path |-> MODEL_PATH, error |-> Some(e)])
            /\ pc' = "resolve_class"
            /\ UNCHANGED <<model, uncaught, exit_code>>
    /\ UNCHANGED <<shim_vars, env_vars, MODEL_PATH, CLASS_PATH, class_names, stdout, preds,
                   raised, result, predict_calls, steps>>

\* Lines 31-69: tf.keras with the custom objects; RuntimeError when it fails.
LoadShim ==
    /\ pc = "load_shim"
    /\ \/ Loaded(3)
       \/ \E e \in LoadErrors(3, MODEL_PATH, listing) :
            LET tried == Append(attempts, [strategy |-> 3, path |-> MODEL_PATH, error |-> Some(e)]) IN
            /\ attempts' = tried
            /\ Die([type |-> "RuntimeError",
                    message |-> LoadErrorMessage(MODEL_PATH, LastError(tried))])
            /\ UNCHANGED model
    /\ UNCHANGED <<shim_vars, env_vars, MODEL_PATH, CLASS_PATH, class_names, stdout, preds,
                   raised, result, predict_calls, steps>>

\* ResolveClassPath that goes on to the argument check without reading labels.
ResolveClassPathSkipRead ==
    /\ pc = "resolve_class"
    /\ LET r == ResolvePath("CLASS_PATH", CLASS_PATH, listing, TXT) IN
        /\ CLASS_PATH' = r.path
        /\ stdout' = stdout \o r.out
    /\ steps' = Append(steps, "resolve_class")
    /\ pc' = "main"
    /\ UNCHANGED <<shim_vars, env_vars, MODEL_PATH, model, class_names, attempts, uncaught,
                   exit_code, preds, raised, result, predict_calls>>

\* Lines 83-87.
ResolveClassPath ==
    /\ pc = "resolve_class"
    /\ LET r == ResolvePath("CLASS_PATH", CLASS_PATH, listing, TXT) IN
        /\ CLASS_PATH' = r.path
        /\ stdout' = stdout \o r.out
    /\ steps' = Append(steps, "resolve_class")
    /\ pc' = "read_labels"
    /\ UNCHANGED <<shim_vars, env_vars, MODEL_PATH, model, class_names, attempts, uncaught,
                   exit_code, preds, raised, result, predict_calls>>

\* Lines 89-90.
ReadLabels ==
    /\ pc = "read_labels"
    /\ steps' = Append(steps, "read_labels")
    /\ \/ /\ ~Exists(CLASS_PATH, listing)
          /\ Die([type |-> "FileNotFoundError", message |-> <<CLASS_PATH>>])
          /\ UNCHANGED class_names
       \/ /\ Exists(CLASS_PATH, listing)
          /\ Die([type |-> "UnicodeDecodeError", message |-> <<CLASS_PATH>>])
          /\ UNCHANGED class_names
       \/ /\ Exists(CLASS_PATH, listing)
          /\ \E lines \in LabelFiles : class_names' = Some(ReadClassNames(lines))
          /\ pc' = "main"
          /\ UNCHANGED <<uncaught, exit_code>>
    /\ UNCHANGED <<shim_vars, env_vars, MODEL_PATH, CLASS_PATH, model, attempts, stdout,
                   preds, raised, result, predict_calls>>

\* CheckArgs with the comparison off by one (len(sys.argv) < 1).
CheckArgsOffByOne ==
    /\ pc = "main"
    /\ steps' = Append(steps, "check_args")
    /\ IF Len(argv) < 1
       THEN /\ stdout' = Append(stdout, JsonLine(UsageError))
            /\ exit_code' = Some(1)
            /\ pc' = "exited"
       ELSE /\ pc' = "analyze"
            /\ UNCHANGED <<stdout, exit_code>>
    /\ UNCHANGED <<shim_vars, env_vars, MODEL_PATH, CLASS_PATH, model, class_names, attempts,
                   uncaught, preds, raised, result, predict_calls>>

\* Lines 115-119.
CheckArgs ==
    /\ pc = "main"
    /\ steps' = Append(steps, "check_args")
    /\ IF Len(argv) < 2
       THEN /\ stdout' = Append(stdout, JsonLine(UsageError))
            /\ exit_code' = Some(1)
            /\ pc' = "exited"
       ELSE /\ pc' = "analyze"
            /\ UNCHANGED <<stdout, exit_code>>
    /\ UNCHANGED <<shim_vars, env_vars, MODEL_PATH, CLASS_PATH, model, class_names, attempts,
                   uncaught, preds, raised, result, predict_calls>>

\* AnalyzeImage whose try block covers the prediction only: a failure of
\* preprocess_image propagates.
AnalyzeImagePropagates ==
    /\ pc = "analyze"
    /\ steps' = Append(steps, "analyze_image")
    /\ \/ \E e \in ImageErrors :
            /\ raised' = Some(e)
            /\ Die([type |-> "OSError", message |-> <<e>>])
            /\ UNCHANGED <<result, preds, predict_calls>>
       \/ \E e \in PredictErrors :
            /\ predict_calls' = predict_calls + 1
            /\ raised' = Some(e)
            /\ result' = Some([error |-> e])
            /\ pc' = "print"
            /\ UNCHANGED <<preds, uncaught, exit_code>>
       \/ \E p \in PredVectors :
            LET d == SelectLabel(p, class_names[1]) IN
            /\ predict_calls' = predict_calls + 1
            /\ preds' = Some(p)
            /\ raised' = IF "error" \in DOMAIN d THEN Some(d.error) ELSE None
            /\ result' = Some(d)
            /\ pc' = "print"
            /\ UNCHANGED <<uncaught, exit_code>>
    /\ UNCHANGED <<shim_vars, env_vars, MODEL_PATH, CLASS_PATH, model, class_names, attempts,
                   stdout>>

\* Lines 99-112 (with preprocess_image, lines 92-97), called on sys.argv[1].
AnalyzeImage ==
    /\ pc = "analyze"
    /\ steps' = Append(steps, "analyze_image")
    /\ \/ \E e \in ImageErrors :
            /\ raised' = Some(e)
            /\ result' = Some([error |-> e])
            /\ UNCHANGED <<preds, predict_calls>>
       \/ \E e \in PredictErrors :
            /\ predict_calls' = predict_calls + 1
            /\ raised' = Some(e)
            /\ result' = Some([error |-> e])
            /\ UNCHANGED preds
       \/ \E p \in PredVectors :
            LET d == SelectLabel(p, class_names[1]) IN
            /\ predict_calls' = predict_calls + 1
            /\ preds' = Some(p)
            /\ raised' = IF "error" \in DOMAIN d THEN Some(d.error) ELSE None
            /\ result' = Some(d)
    /\ pc' = "print"
    /\ UNCHANGED <<shim_vars, env_vars, MODEL_PATH, CLASS_PATH, model, class_names, attempts,
                   stdout, uncaught, exit_code>>

\* Line 121, and the interpreter's normal exit.
PrintResult ==
    /\ pc = "print"
    /\ steps' = Append(steps, "print_result")
    /\ stdout' = Append(stdout, JsonLine(result[1]))
    /\ exit_code' = Some(0)
    /\ pc' = "exited"
    /\ UNCHANGED <<shim_vars, env_vars, MODEL_PATH, CLASS_PATH, model, class_names, attempts,
                   uncaught, preds, raised, result, predict_calls>>

Next ==
    \/ ResolveModelPath
    \/ LoadPrimary
    \/ LoadSecondary
    \/ LoadShim
    \/ ResolveClassPath
    \/ ReadLabels
    \/ CheckArgs
    \/ AnalyzeImage
    \/ PrintResult

Spec == Init /\ [][Next]_vars

\* ---------------------------------------------------------------------
\* The custom objects, called as the deserializer of line 64 calls them:
\* the process stands in the third strategy, after two failed attempts.
InitShims ==
    /\ environ = EmptyDict
    /\ argv = <<Script, "leaf.jpg">>
    /\ listing = <<DefaultModel, DefaultClass>>
    /\ MODEL_PATH = DefaultModel
    /\ CLASS_PATH = DefaultClass
    /\ model = None
    /\ class_names = None
    /\ attempts = << [strategy |-> 1, path |-> DefaultModel,
                      error |-> Some("Unrecognized keyword arguments: ['batch_shape']")],
                     [strategy |-> 2, path |-> DefaultModel,
                      error |-> Some("No module named 'keras'")] >>
    /\ stdout = <<>>
    /\ uncaught = None
    /\ exit_code = None
    /\ preds = None
    /\ raised = None
    /\ result = None
    /\ predict_calls = 0
    /\ steps = <<"resolve_model", "load_model">>
    /\ pc = "load_shim"
    /\ \/ heap = <<>> /\ config = None
       \/ \E d \in Configs : heap = <<d>> /\ config = Some(1)
    /\ config0 = IF config = None THEN None ELSE Some(heap[1])
    /\ policy \in [name : PolicyNames]
    /\ delegated = None
    /\ built = None
    /\ call = "none"

\* p.get_config()
GetConfig ==
    /\ call = "none"
    /\ built' = Some(DTypePolicyGetConfig(policy))
    /\ call' = "get_config"
    /\ UNCHANGED <<proc_vars, heap, config, config0, policy, delegated>>

\* DTypePolicyShim.from_config(config)
PolicyFromConfig ==
    /\ call = "none"
    /\ built' = Some(DTypePolicyFromConfig(heap, config))
    /\ call' = "policy_from_config"
    /\ UNCHANGED <<proc_vars, heap, config, config0, policy, delegated>>

\* DTypePolicyShim.from_config(p.get_config())
RoundTrip ==
    /\ call = "none"
    /\ LET h == Append(heap, DTypePolicyGetConfig(policy)) IN
        /\ heap' = h
        /\ built' = Some(DTypePolicyFromConfig(h, Some(Len(h))))
    /\ call' = "round_trip"
    /\ UNCHANGED <<proc_vars, config, config0, policy, delegated>>

\* LegacyInputLayer.from_config(config); dict(None) raises TypeError
LayerFromConfig ==
    /\ call = "none"
    /\ IF config = None
       THEN /\ built' = Some([raised |-> "TypeError"])
            /\ UNCHANGED <<heap, delegated>>
       ELSE LET r == LegacyFromConfig(heap, config[1]) IN
            /\ heap' = r.heap
            /\ delegated' = Some(r.passed)
            /\ built' = Some([layer |-> "InputLayer"])
    /\ call' = "layer_from_config"
    /\ UNCHANGED <<proc_vars, config, config0, policy>>

NextShims ==
    \/ GetConfig
    \/ PolicyFromConfig
    \/ RoundTrip
    \/ LayerFromConfig

SpecShims == InitShims /\ [][NextShims]_vars

\* =====================================================================
\* Properties
\* =====================================================================
Exited == pc = "exited"

JsonLines(out) == SelectSeq(out, LAMBDA l : l.kind = "json")
NoticeLines(out, var) ==
    SelectSeq(out, LAMBDA l : l.kind = "notice" /\ l.text[1] = var)

UsageLine == [kind |-> "json", value |-> [error |-> "No image path provided"]]

ConfiguredModel == EnvGet(environ, "MODEL_FILE", DefaultModel)
ConfiguredClass == EnvGet(environ, "CLASS_FILE", DefaultClass)

InDir(name) == \E i \in 1..Len(listing) : listing[i] = name

StartupDone == model # None /\ class_names # None

\* C1 as stated: a run without an image path prints exactly the usage error
\* line and exits with code 1, whatever the model file, the label file and
\* the working directory are.
C1_AnyStartup ==
    (Exited /\ Len(argv) < 2) =>
        (stdout = <<UsageLine>> /\ exit_code = Some(1))

\* C1 amended: a run without an image path in which the model and the labels
\* load ends with the usage error line as its only JSON line, preceded only by
\* fallback notices (none when both configured files exist), and exits with
\* code 1; when loading fails the run ends with the unhandled error, exit
\* code 1, and no JSON line.
C1_UsageAfterStartup ==
    (Exited /\ Len(argv) < 2) =>
        /\ exit_code = Some(1)
        /\ IF StartupDone
           THEN /\ uncaught = None
                /\ stdout # <<>>
                /\ stdout[Len(stdout)] = UsageLine
                /\ \A i \in 1..(Len(stdout) - 1) : stdout[i].kind = "notice"
                /\ (InDir(ConfiguredModel) /\ InDir(ConfiguredClass)
                        => stdout = <<UsageLine>>)
           ELSE /\ uncaught # None
                /\ JsonLines(stdout) = <<>>

C1_Witness ==
    /\ Exited
    /\ Len(argv) < 2
    /\ StartupDone
    /\ Len(stdout) = 2
    /\ stdout[1].kind = "notice"

IsErrorShape(d) == DOMAIN d = {"error"}
IsSuccessShape(d) == DOMAIN d = {"label", "confidence"}

\* C2: with an image path supplied and start-up succeeded, the run prints
\* exactly one JSON line, as its last output, and exits with code 0; a failure
\* raised inside analyze_image is returned as {"error": message} and never
\* propagates, a success is {"label", "confidence"}, and the result has
\* exactly one of the two shapes.
C2_OneJsonLineExitZero ==
    /\ (Exited /\ Len(argv) >= 2 /\ StartupDone) =>
        /\ exit_code = Some(0)
        /\ uncaught = None
        /\ result # None
        /\ Len(JsonLines(stdout)) = 1
        /\ stdout[Len(stdout)] = [kind |-> "json", value |-> result[1]]
    /\ (raised # None) =>
        /\ uncaught = None
        /\ result = Some([error |-> raised[1]])
    /\ (result # None) =>
        /\ IsErrorShape(result[1]) # IsSuccessShape(result[1])
        /\ (IsSuccessShape(result[1]) <=> raised = None)

C2_Witness ==
    /\ Exited
    /\ exit_code = Some(0)
    /\ raised = Some("No such file or directory")
    /\ stdout[Len(stdout)].value = [error |-> "No such file or directory"]

AllStrategiesFailed == Len(attempts) = 3 /\ attempts[3].error # None

InSteps(name) == \E i \in 1..Len(steps) : steps[i] = name

\* C3: model.predict is invoked only after load_model_with_fallback returned
\* a predictor from one of its three strategies; when all three fail the
\* process ends with the unhandled load error, without invoking predict,
\* without reading the label file and without printing a JSON line.
C3_NoPredictWithoutModel ==
    /\ (predict_calls > 0) =>
        /\ model # None
        /\ model[1].strategy \in 1..3
        /\ attempts[Len(attempts)] =
             [strategy |-> model[1].strategy, path |-> model[1].path, error |-> None]
    /\ AllStrategiesFailed =>
        /\ Exited
        /\ uncaught # None
        /\ uncaught[1].type = "RuntimeError"
        /\ model = None
        /\ predict_calls = 0
        /\ class_names = None
        /\ ~InSteps("read_labels")
        /\ result = None
        /\ JsonLines(stdout) = <<>>

C3_Witness ==
    /\ AllStrategiesFailed
    /\ Exited
    /\ InDir(MODEL_PATH)

\* The lowest 1-based index holding the maximum of a non-empty vector.
IsLowestMax(p, i) ==
    /\ i \in 1..Len(p)
    /\ \A j \in 1..Len(p) : p[j] <= p[i]
    /\ \A j \in 1..(i - 1) : p[j] < p[i]

\* C4: for every prediction vector and every label list covering the selected
\* index, analyze_image returns labels[i] and preds[i], i the lowest index
\* holding the maximum (ties go to the lowest index); the confidence is the
\* raw maximum.
C4_LowestArgmax ==
    (preds # None /\ result # None) =>
        \A i \in 1..Len(preds[1]) :
            (IsLowestMax(preds[1], i) /\ i <= Len(class_names[1])) =>
                result[1] = [label |-> class_names[1][i],
                             confidence |-> preds[1][i]]

C4_Witness ==
    /\ preds # None
    /\ result # None
    /\ Len(preds[1]) >= 2
    /\ preds[1][1] = preds[1][2]
    /\ IsLowestMax(preds[1], 1)
    /\ IsSuccessShape(result[1])
    /\ Len(class_names[1]) >= 2
    /\ class_names[1][1] # class_names[1][2]

IndexFailure == [error |-> "list index out of range"]

LoadFailed == uncaught # None /\ uncaught[1].type = "RuntimeError"

\* C6: the strategies run in the order 1, 2, 3 on the same path, each only
\* after the one before it raised, and none after a success; the predictor
\* is that of the first success; RuntimeError is raised iff all three fail,
\* and its message holds the path attempted and the third attempt's error.
C6_FallbackOrder ==
    /\ Len(attempts) <= 3
    /\ \A i \in 1..Len(attempts) :
          /\ attempts[i].strategy = i
          /\ attempts[i].path = MODEL_PATH
          /\ (i < Len(attempts) => attempts[i].error # None)
    /\ (model # None) <=>
          (attempts # <<>> /\ attempts[Len(attempts)].error = None)
    /\ (model # None) =>
          model[1] = [strategy |-> Len(attempts), path |-> MODEL_PATH]
    /\ LoadFailed <=> AllStrategiesFailed
    /\ LoadFailed =>
          /\ uncaught[1].message[2] = MODEL_PATH
          /\ uncaught[1].message[4] = attempts[3].error[1]
    /\ (pc \notin {"resolve_model", "load_primary", "load_secondary", "load_shim"}) =>
          (model # None \/ LoadFailed)

C6_Witness ==
    /\ LoadFailed
    /\ attempts[1].error # attempts[3].error
    /\ attempts[2].error # attempts[3].error

\* Names ending in .h5 / .txt whatever the case of the letters.
IsH5(n) ==
    /\ Len(n) >= 3
    /\ n[Len(n) - 2] = "."
    /\ n[Len(n) - 1] \in {"h", "H"}
    /\ n[Len(n)] = "5"
IsTxt(n) ==
    /\ Len(n) >= 4
    /\ n[Len(n) - 3] = "."
    /\ n[Len(n) - 2] \in {"t", "T"}
    /\ n[Len(n) - 1] \in {"x", "X"}
    /\ n[Len(n)] \in {"t", "T"}

IsFirst(Matches(_), i) ==
    /\ i \in 1..Len(listing)
    /\ Matches(listing[i])
    /\ \A j \in 1..(i - 1) : ~Matches(listing[j])

\* The resolution rule, for one path: configured path `cfg`, resolved `path`.
Resolved(var, cfg, path, Matches(_)) ==
    LET notices == NoticeLines(stdout, var) IN
    IF InDir(cfg)
    THEN path = cfg /\ notices = <<>>
    ELSE IF \E i \in 1..Len(listing) : Matches(listing[i])
         THEN /\ \A i \in 1..Len(listing) :
                    IsFirst(Matches, i) => path = listing[i]
              /\ Len(notices) = 1
              /\ \A i, j \in 1..Len(stdout) :
                    (stdout[i] = notices[1] /\ stdout[j].kind = "json") => i < j
         ELSE path = cfg /\ notices = <<>>

C8_PolicyRoundTrip ==
    /\ (call = "round_trip") =>
          /\ DOMAIN built[1] = {"name"}
          /\ built[1]["name"] = policy.name
    /\ (call = "get_config") =>
          /\ DOMAIN built[1] = {"name"}
          /\ built[1]["name"] = policy.name
    /\ (call = "policy_from_config" /\ (config = None \/ DOMAIN config0[1] = {})) =>
          /\ DOMAIN built[1] = {"name"}
          /\ built[1]["name"] = "float32"

C8_Witness ==
    /\ call = "round_trip"
    /\ policy.name = "bfloat16"
    /\ built = Some([name |-> "bfloat16"])

\* C9: LegacyInputLayer.from_config hands InputLayer.from_config the caller's
\* configuration without the key 'batch_shape' and with every other key and
\* value unchanged, raises nothing when the key is absent, and leaves the
\* caller's dictionary as it was.
C9_BatchShapeStripped ==
    (call = "layer_from_config" /\ config # None) =>
        /\ built = Some([layer |-> "InputLayer"])
        /\ delegated # None
        /\ DOMAIN heap[delegated[1]] = DOMAIN config0[1] \ {"batch_shape"}
        /\ \A k \in DOMAIN heap[delegated[1]] : heap[delegated[1]][k] = config0[1][k]
        /\ heap[config[1]] = config0[1]

C9_Witness ==
    /\ call = "layer_from_config"
    /\ config # None
    /\ DOMAIN config0[1] = {"batch_shape", "name"}
    /\ DOMAIN heap[delegated[1]] = {"name"}

StartupOrder ==
    <<"resolve_model", "load_model", "resolve_class", "read_labels",
      "check_args", "analyze_image", "print_result">>

\* C10: the steps run in one fixed order: model path resolution, model
\* loading, label path resolution, label reading, argument check, then at
\* most one analyze_image call and one print.  The argument check and its
\* usage error come only after model and labels loaded; the model is loaded
\* once and predict is invoked at most once.
C10_FixedOrder ==
    /\ Len(steps) <= Len(StartupOrder)
    /\ \A i \in 1..Len(steps) : steps[i] = StartupOrder[i]
    /\ InSteps("check_args") => StartupDone
    /\ (\E i \in 1..Len(stdout) : stdout[i] = UsageLine) =>
          (StartupDone /\ InSteps("check_args"))
    /\ predict_calls <= 1
    /\ (predict_calls = 1) => InSteps("analyze_image")
    /\ (model # None) =>
          Cardinality({i \in 1..Len(attempts) : attempts[i].error = None}) = 1
    /\ InSteps("check_args") =>
          Cardinality({i \in 1..Len(steps) : steps[i] = "load_model"}) = 1

C10_Witness ==
    /\ Exited
    /\ steps = StartupOrder
    /\ predict_calls = 1

====
